---- MODULE Spec2Model ----
(***************************************************************************)
(* RentRelief: the dual-path contract analysis.                            *)
(*   src/src/lib/geminiService.ts   analyzeContractWithGemini and parser   *)
(*   src/unnamed/part_000           README: the Gemini -> keyword fallback *)
(*   src/src/components/AnalysisResults.tsx   the view of a result         *)
(* One analysis call is modelled as a state machine; the response of the   *)
(* external model is untyped JSON, modelled as tagged JavaScript values.   *)
(* ConcurrentSpec interleaves two such calls.                              *)
(*   src/src/components/ContractChatbot.tsx   the follow-up chat, with     *)
(*   createContractChatSession and sendChatMessage: ChatSpec               *)
(***************************************************************************)
EXTENDS Integers, Sequences, FiniteSets, TLC

(***************************************************************************)
(* Bounds of the model.                                                    *)
(***************************************************************************)
\* largest retry budget a caller passes (the default is 3)
MaxRetriesBound == 3
\* longest flaggedClauses array of a response
MaxClauses == 3

(***************************************************************************)
(* JavaScript values, tagged with their type.                              *)
(***************************************************************************)
Undefined == [t |-> "undefined"]
Null == [t |-> "null"]
Num(n) == [t |-> "number", v |-> n]
Str(s) == [t |-> "string", v |-> s]
Bool(b) == [t |-> "boolean", v |-> b]
Arr(s) == [t |-> "array", v |-> s]
Obj(r) == [t |-> "object", v |-> r]

\* typeof x
typeof(x) == IF x.t \in {"null", "array", "object"} THEN "object" ELSE x.t

\* the truthiness of x, as in !x and if (x)
truthy(x) ==
    CASE x.t = "undefined" -> FALSE
      [] x.t = "null" -> FALSE
      [] x.t = "number" -> x.v # 0
      [] x.t = "string" -> x.v # ""
      [] x.t = "boolean" -> x.v
      [] OTHER -> TRUE

\* Array.isArray(x)
isArray(x) == x.t = "array"

\* data.name: a property read; only plain objects of the model carry properties
Get(x, name) == IF x.t = "object" /\ name \in DOMAIN x.v THEN x.v[name] ELSE Undefined

(***************************************************************************)
(* GeminiError and the errors of other classes                             *)
(***************************************************************************)
NoError == [isGemini |-> FALSE, code |-> "none"]
\* new GeminiError(message, code)
GeminiError(code) == [isGemini |-> TRUE, code |-> code]
\* any error that is not an instance of GeminiError, by its name
OtherError(name) == [isGemini |-> FALSE, code |-> name]

(***************************************************************************)
(* The text of a response, as a sequence of tokens: runs of whitespace,    *)
(* the code-fence marker, words, and one JSON value.                       *)
(***************************************************************************)
Ws == [tok |-> "ws"]
\* the marker of a fenced block (three backquotes)
Fence == [tok |-> "fence"]
Word(w) == [tok |-> "word", w |-> w]
Value(d) == [tok |-> "value", data |-> d]

RECURSIVE trimStart(_)
\* the text without its leading whitespace (String.trimStart, /^\s*/)
trimStart(s) == IF s # <<>> /\ Head(s) = Ws THEN trimStart(Tail(s)) ELSE s

RECURSIVE trimEnd(_)
\* the text without its trailing whitespace (String.trimEnd)
trimEnd(s) ==
    IF s # <<>> /\ s[Len(s)] = Ws THEN trimEnd(SubSeq(s, 1, Len(s) - 1)) ELSE s

\* response.trim()
trim(s) == trimEnd(trimStart(s))

\* s.startsWith(fence + 'json')
startsWithFenceJson(s) == Len(s) >= 2 /\ s[1] = Fence /\ s[2] = Word("json")

\* s.startsWith(fence)
startsWithFence(s) == Len(s) >= 1 /\ s[1] = Fence

\* s.replace(/\s*fence$/, '')
stripClosingFence(s) ==
    IF s # <<>> /\ s[Len(s)] = Fence THEN trimEnd(SubSeq(s, 1, Len(s) - 1)) ELSE s

\* a removal that knows the fence with the json tag only
cleanResponse_jsonOnly(response) ==
    LET cleanedResponse == trim(response) IN
    IF startsWithFenceJson(cleanedResponse)
    THEN stripClosingFence(trimStart(SubSeq(cleanedResponse, 3, Len(cleanedResponse))))
    ELSE cleanedResponse

\* the code-fence removal of parseGeminiResponse
cleanResponse(response) ==
    LET cleanedResponse == trim(response) IN
    IF startsWithFenceJson(cleanedResponse)
    THEN stripClosingFence(trimStart(SubSeq(cleanedResponse, 3, Len(cleanedResponse))))
    ELSE IF startsWithFence(cleanedResponse)
    THEN stripClosingFence(trimStart(SubSeq(cleanedResponse, 2, Len(cleanedResponse))))
    ELSE cleanedResponse

\* JSON.parse: one value, whitespace allowed around it; anything else throws
JSONparse(s) ==
    LET core == trim(s) IN
    IF Len(core) = 1 /\ core[1].tok = "value"
    THEN [ok |-> TRUE, data |-> core[1].data]
    ELSE [ok |-> FALSE, data |-> Undefined]

(***************************************************************************)
(* validateAnalysisResult                                                  *)
(***************************************************************************)
validRiskLevels == {"low", "moderate", "high", "critical"}

\* the variant without the range check of the score
validateAnalysisResult_noRange(data) ==
    /\ truthy(data) /\ typeof(data) = "object"
    /\ truthy(Get(data, "keyDetails")) /\ typeof(Get(data, "keyDetails")) = "object"
    /\ isArray(Get(data, "flaggedClauses"))
    /\ typeof(Get(data, "overallRiskScore")) = "number"
    /\ truthy(Get(data, "riskLevel")) /\ typeof(Get(data, "riskLevel")) = "string"
    /\ truthy(Get(data, "summary")) /\ typeof(Get(data, "summary")) = "string"
    /\ isArray(Get(data, "recommendations"))
    /\ Get(data, "riskLevel").v \in validRiskLevels

validateAnalysisResult(data) ==
    /\ truthy(data) /\ typeof(data) = "object"
    /\ truthy(Get(data, "keyDetails")) /\ typeof(Get(data, "keyDetails")) = "object"
    /\ isArray(Get(data, "flaggedClauses"))
    /\ typeof(Get(data, "overallRiskScore")) = "number"
    /\ truthy(Get(data, "riskLevel")) /\ typeof(Get(data, "riskLevel")) = "string"
    /\ truthy(Get(data, "summary")) /\ typeof(Get(data, "summary")) = "string"
    /\ isArray(Get(data, "recommendations"))
    /\ ~(Get(data, "overallRiskScore").v < 0 \/ Get(data, "overallRiskScore").v > 100)
    /\ Get(data, "riskLevel").v \in validRiskLevels

(***************************************************************************)
(* parseGeminiResponse                                                     *)
(***************************************************************************)
\* the list with the pet deposit pushed under the label of the security deposit
DetailFields_sharedLabel ==
    << [field |-> "propertyAddress", label |-> "Property Address", category |-> "other"],
       [field |-> "landlordName", label |-> "Landlord Name", category |-> "other"],
       [field |-> "monthlyRent", label |-> "Monthly Rent", category |-> "rent"],
       [field |-> "securityDeposit", label |-> "Security Deposit",
        category |-> "security_deposit"],
       [field |-> "petDeposit", label |-> "Security Deposit",
        category |-> "security_deposit"],
       [field |-> "leaseStartDate", label |-> "Lease Start Date", category |-> "termination"],
       [field |-> "leaseEndDate", label |-> "Lease End Date", category |-> "termination"],
       [field |-> "noticePeriod", label |-> "Notice Period", category |-> "termination"] >>

\* the key-detail fields the parser converts, in the order it pushes them
DetailFields ==
    << [field |-> "propertyAddress", label |-> "Property Address", category |-> "other"],
       [field |-> "landlordName", label |-> "Landlord Name", category |-> "other"],
       [field |-> "monthlyRent", label |-> "Monthly Rent", category |-> "rent"],
       [field |-> "securityDeposit", label |-> "Security Deposit",
        category |-> "security_deposit"],
       [field |-> "petDeposit", label |-> "Pet Deposit", category |-> "security_deposit"],
       [field |-> "leaseStartDate", label |-> "Lease Start Date", category |-> "termination"],
       [field |-> "leaseEndDate", label |-> "Lease End Date", category |-> "termination"],
       [field |-> "noticePeriod", label |-> "Notice Period", category |-> "termination"] >>

RECURSIVE pushDetails(_, _)
\* the keyDetails array after the if/push statements from the i-th on
pushDetails(detailsMap, i) ==
    IF i > Len(DetailFields) THEN <<>>
    ELSE LET d == DetailFields[i] IN
         (IF truthy(Get(detailsMap, d.field))
          THEN << [label |-> d.label, value |-> Get(detailsMap, d.field),
                   category |-> d.category] >>
          ELSE <<>>) \o pushDetails(detailsMap, i + 1)

\* an id that leaves the index out
geminiId_noIndex(index) == [prefix |-> "gemini-", index |-> 0]

\* the template string 'gemini-' + index
geminiId(index) == [prefix |-> "gemini-", index |-> index]

\* the body of the flaggedClauses.map callback (index is 0-based)
convertClause(clause, index) ==
    [clause |-> [id |-> geminiId(index),
                 category |-> Get(clause, "category"),
                 name |-> Get(clause, "violation"),
                 description |-> Get(clause, "explanation"),
                 keywords |-> <<>>,
                 isMalicious |-> Get(clause, "isMalicious"),
                 severity |-> Get(clause, "severity"),
                 legalReference |-> Get(clause, "legalReference"),
                 explanation |-> Get(clause, "explanation")],
     matchedText |-> Get(clause, "clauseText"),
     position |-> 0,
     aiInsight |-> Get(clause, "recommendation")]

\* a parser that reports a confidence below the fallback's
GeminiConfidence_low == 100 - 40

GeminiConfidence == 95

NoResult == [analysisMethod |-> "none"]

\* the score the parser reports: the one the response declares
reportedScore(data) == Get(data, "overallRiskScore").v

\* parseGeminiResponse(response): the AnalysisResult, or the error it throws
parseGeminiResponse(response) ==
    LET parsed == JSONparse(cleanResponse(response))
        data == parsed.data
        items == Get(data, "flaggedClauses").v
    IN  IF ~parsed.ok
        THEN [error |-> GeminiError("PARSE_ERROR"), result |-> NoResult]
        ELSE IF ~validateAnalysisResult(data)
        THEN [error |-> GeminiError("VALIDATION_ERROR"), result |-> NoResult]
        ELSE IF \E i \in 1..Len(items) : items[i].t \in {"null", "undefined"}
        \* reading a property of null inside the map callback
        THEN [error |-> OtherError("TypeError"), result |-> NoResult]
        ELSE [error |-> NoError,
              result |->
                [summary |-> Get(data, "summary").v,
                 keyDetails |-> pushDetails(Get(data, "keyDetails"), 1),
                 flaggedClauses |->
                    [i \in 1..Len(items) |-> convertClause(items[i], i - 1)],
                 overallRiskScore |-> reportedScore(data),
                 recommendations |-> Get(data, "recommendations").v,
                 analysisMethod |-> "gemini",
                 confidence |-> GeminiConfidence]]

(***************************************************************************)
(* The risk score of a list of flagged clauses (High=30, Medium=15, Low=5, *)
(* max 100), and the keyword analyzer of contractAnalyzer.ts.              *)
(***************************************************************************)
HighPoints == 30
MediumPoints == 15
LowPoints == 5
MaxScore == 100

severityPoints(severity) ==
    IF severity = Str("high") THEN HighPoints
    ELSE IF severity = Str("medium") THEN MediumPoints
    ELSE IF severity = Str("low") THEN LowPoints
    ELSE 0

RECURSIVE sumPoints(_, _)
\* the points of the malicious clauses among flagged[i..]
sumPoints(flagged, i) ==
    IF i > Len(flagged) THEN 0
    ELSE (IF truthy(flagged[i].clause.isMalicious)
          THEN severityPoints(flagged[i].clause.severity)
          ELSE 0) + sumPoints(flagged, i + 1)

\* min(100, sum of the points of the malicious clauses)
riskScore(flagged) ==
    IF sumPoints(flagged, 1) > MaxScore THEN MaxScore ELSE sumPoints(flagged, 1)

\* the clause patterns of the catalog (bcRentalClauses.ts)
clausePatterns ==
    << [id |-> "excessive-deposit", category |-> "security_deposit", severity |-> "high",
        isMalicious |-> TRUE],
       [id |-> "non-refundable-deposit", category |-> "security_deposit",
        severity |-> "high", isMalicious |-> TRUE],
       [id |-> "illegal-eviction", category |-> "termination", severity |-> "high",
        isMalicious |-> TRUE],
       [id |-> "waive-rights", category |-> "other", severity |-> "high",
        isMalicious |-> TRUE],
       [id |-> "excessive-late-fees", category |-> "rent", severity |-> "medium",
        isMalicious |-> TRUE],
       [id |-> "standard-notice", category |-> "termination", severity |-> "low",
        isMalicious |-> FALSE] >>

KeywordConfidence == 70

RECURSIVE matchPatterns(_, _)
\* the catalog patterns from the i-th on that the text matches, each once
matchPatterns(hits, i) ==
    IF i > Len(clausePatterns) THEN <<>>
    ELSE LET p == clausePatterns[i] IN
         (IF i \in hits
          THEN << [clause |-> [id |-> [prefix |-> p.id, index |-> 0],
                               category |-> Str(p.category),
                               name |-> Str(p.id),
                               description |-> Str(p.id),
                               keywords |-> <<>>,
                               isMalicious |-> Bool(p.isMalicious),
                               severity |-> Str(p.severity),
                               legalReference |-> Str("BC RTA"),
                               explanation |-> Str(p.id)],
                    matchedText |-> Str(p.id),
                    position |-> i] >>
          ELSE <<>>) \o matchPatterns(hits, i + 1)

\* analyzeContractWithKeywords(text): total, no network
analyzeContractWithKeywords(text) ==
    LET flagged == matchPatterns(text.hits, 1) IN
    [summary |-> "keyword analysis",
     keyDetails |-> <<>>,
     flaggedClauses |-> flagged,
     overallRiskScore |-> riskScore(flagged),
     recommendations |-> << Str("Read the full agreement") >>,
     analysisMethod |-> "keyword",
     confidence |-> KeywordConfidence]

(***************************************************************************)
(* The contract text: leading whitespace, the text proper, trailing        *)
(* whitespace (lengths), and the catalog patterns that occur in it.        *)
(***************************************************************************)
MinTextLength == 100

ContractText(lead, core, trail, hits) ==
    [lead |-> lead, core |-> core, trail |-> trail, hits |-> hits]

\* contractText.length
textLength(text) == text.lead + text.core + text.trail

\* contractText.trim()
trimText(text) == [text EXCEPT !.lead = 0, !.trail = 0]

\* the larger of 0 and the smaller of a and b
atMost(a, b) == IF a < 0 \/ b < 0 THEN 0 ELSE IF a < b THEN a ELSE b

\* text.slice(0, n): the first n characters of text
slice(text, n) ==
    LET lead == atMost(text.lead, n)
        core == atMost(text.core, n - lead)
        trail == atMost(text.trail, n - lead - core)
    IN  [lead |-> lead, core |-> core, trail |-> trail]

PromptMaxChars == 50000

\* a prompt that embeds the trimmed text
buildAnalysisPrompt_trimmed(text) ==
    [built |-> TRUE,
     knowledge |-> "BC_RTA_KNOWLEDGE",
     contract |-> slice(trimText(text), PromptMaxChars)]

\* buildAnalysisPrompt(contractText): the template with the knowledge base
\* and the first 50,000 characters of the text
buildAnalysisPrompt(text) ==
    [built |-> TRUE,
     knowledge |-> "BC_RTA_KNOWLEDGE",
     contract |-> slice(text, PromptMaxChars)]

ContractTexts ==
    { ContractText(1, PromptMaxChars, 1, {2}),
      ContractText(0, 0, 0, {}),
      ContractText(3, 0, 0, {}),
      ContractText(0, MinTextLength - 1, 0, {1}),
      ContractText(1, MinTextLength - 1, 1, {2, 5}),
      ContractText(0, MinTextLength, 0, {}),
      ContractText(2, MinTextLength, 1, {2, 5, 6}),
      ContractText(0, MinTextLength + 1, 0, {1, 2, 3, 4, 5}) }

(***************************************************************************)
(* The responses the external model may give.                              *)
(***************************************************************************)
\* an item of flaggedClauses
ClauseObj(severity, isMalicious) ==
    Obj([clauseText |-> Str("clause text"), category |-> Str("other"),
         severity |-> Str(severity), isMalicious |-> Bool(isMalicious),
         violation |-> Str("violation"), legalReference |-> Str("BC RTA Section 19"),
         explanation |-> Str("explanation"), recommendation |-> Str("advice")])

ClauseKinds ==
    << ClauseObj("high", TRUE), ClauseObj("medium", TRUE), ClauseObj("low", TRUE),
       ClauseObj("high", FALSE), ClauseObj("medium", FALSE), ClauseObj("low", FALSE) >>

\* the lists of at most MaxClauses items (one list for each multiset of items)
ClauseLists ==
    { [i \in 1..Len(ks) |-> ClauseKinds[ks[i]]] :
        ks \in { k \in UNION { [1..n -> 1..Len(ClauseKinds)] : n \in 0..MaxClauses } :
                    \A i \in 1..(Len(k) - 1) : k[i] <= k[i + 1] } }

ScoreChoices == {-1, 0, 10, 60, 100, 101}

KeyDetailsObj ==
    Obj([monthlyRent |-> Str("$2,000"), securityDeposit |-> Str("$1,000"),
         petDeposit |-> Null, leaseStartDate |-> Str("2025-09-01"),
         leaseEndDate |-> Null, propertyAddress |-> Str("123 Main St"),
         landlordName |-> Str(""), tenantName |-> Str("Sam"), noticePeriod |-> Null])

\* a JSON object with the six top-level fields
Payload(flaggedClauses, overallRiskScore, riskLevel) ==
    Obj([keyDetails |-> KeyDetailsObj,
         flaggedClauses |-> flaggedClauses,
         overallRiskScore |-> overallRiskScore,
         riskLevel |-> riskLevel,
         summary |-> Str("summary"),
         recommendations |-> Arr(<< Str("recommendation 1") >>)])

BasePayload == Payload(Arr(<< ClauseObj("high", TRUE) >>), Num(30), Str("high"))

\* obj with one top-level field replaced
With(obj, name, value) == Obj([obj.v EXCEPT ![name] = value])

\* obj without one top-level field
Without(obj, name) == Obj([f \in (DOMAIN obj.v) \ {name} |-> obj.v[f]])

TopLevelFields ==
    {"keyDetails", "flaggedClauses", "overallRiskScore", "riskLevel", "summary",
     "recommendations"}

ScoredPayloads ==
    { Payload(Arr(fc), Num(sc), Str("high")) : fc \in ClauseLists, sc \in ScoreChoices }

LevelPayloads ==
    { Payload(Arr(<<>>), Num(sc), rl) :
        sc \in ScoreChoices,
        rl \in {Str("low"), Str("moderate"), Str("critical"), Str("extreme"), Str("Low"),
                Str(""), Null} }

IllTypedPayloads ==
    { Without(BasePayload, f) : f \in TopLevelFields }
    \cup { With(BasePayload, f, Null) : f \in TopLevelFields }
    \cup { With(BasePayload, f, Num(0)) : f \in TopLevelFields }
    \cup { With(BasePayload, f, Str("60")) : f \in TopLevelFields }
    \cup { With(BasePayload, f, Arr(<<>>)) : f \in TopLevelFields }
    \cup { Null, Num(5), Str("summary"), Arr(<<>>), Bool(TRUE) }

NullItemPayloads ==
    { Payload(Arr(<< Null >>), Num(0), Str("low")),
      Payload(Arr(<< ClauseObj("high", TRUE), Null >>), Num(30), Str("high")),
      Payload(Arr(<< Num(1), Str("x") >>), Num(30), Str("high")) }

\* the fields of keyDetails a response declares
DetailNames ==
    {"monthlyRent", "securityDeposit", "petDeposit", "leaseStartDate", "leaseEndDate",
     "propertyAddress", "landlordName", "tenantName", "noticePeriod"}

\* every combination of extracted (a string) and not found (null) key details
KeyDetailPayloads ==
    { With(BasePayload, "keyDetails", Obj(kd)) :
        kd \in [DetailNames -> {Str("extracted value"), Null}] }

\* every score of 0..100, each with a declared level other than the one the
\* results view shows for it
EveryScorePayloads ==
    { Payload(Arr(<<>>), Num(sc), Str(IF sc >= HighPoints THEN "low" ELSE "critical")) :
        sc \in 0..MaxScore }

Payloads ==
    ScoredPayloads \cup LevelPayloads \cup IllTypedPayloads \cup NullItemPayloads
    \cup EveryScorePayloads \cup KeyDetailPayloads

\* the language tags a fenced block may open with ("" is no tag)
LanguageTags == {"", "json", "javascript"}

\* the texts a response may put inside a fenced block
FencePayloadTexts ==
    { <<>>, << Word("Sorry") >>, << Word("Here"), Value(BasePayload) >>,
      << Value(BasePayload), Value(BasePayload) >>,
      << Value(BasePayload) >>,
      << Value(Payload(Arr(<<>>), Num(MaxScore + 1), Str("critical"))) >> }

\* a run of whitespace, or none
Space(n) == IF n > 0 THEN << Ws >> ELSE <<>>

\* payload inside a fenced block: whitespace, the opening marker with its tag,
\* whitespace, the payload, whitespace, the closing marker, whitespace
Wrap(payload, lead, tag, open, close, trail) ==
    Space(lead) \o << Fence >> \o (IF tag = "" THEN <<>> ELSE << Word(tag) >>)
    \o Space(open) \o payload \o Space(close) \o << Fence >> \o Space(trail)

FencedTexts ==
    { Wrap(payload, lead, tag, open, close, trail) :
        payload \in FencePayloadTexts, tag \in LanguageTags,
        lead \in 0..1, open \in 0..1, close \in 0..1, trail \in 0..1 }

ResponseTexts ==
    FencedTexts \cup
    { <<>>, << Ws >>, << Word("Sorry") >>, << Word("Here"), Value(BasePayload) >>,
      << Value(BasePayload), Value(BasePayload) >>,
      << Ws, Value(BasePayload), Ws >>,
      << Fence, Word("json"), Ws, Value(BasePayload), Ws, Fence >>,
      << Fence, Ws, Value(BasePayload), Ws, Fence, Ws >>,
      << Fence, Word("javascript"), Ws, Value(BasePayload), Ws, Fence >> }
    \cup { << Value(p) >> : p \in Payloads }

\* the failures of the transport itself: none is a GeminiError
TransportErrors == {"NetworkError", "RateLimitError", "Error"}

(***************************************************************************)
(* One analysis: the caller of the README awaits analyzeContractWithGemini *)
(* and falls back to analyzeContractWithKeywords when it throws.           *)
(***************************************************************************)
VARIABLES
    apiKey,             \* whether VITE_GEMINI_API_KEY is set
    contractText,       \* the text under analysis
    maxRetries,         \* the retry budget of the call
    pc,                 \* where the analysis stands
    attempt,            \* the loop counter of the retry loop
    call,               \* the generateContent call: "none", "pending" or "lost"
    calls,              \* generateContent calls issued so far
    sleeps,             \* the delays (ms) of the sleep calls so far, in order
    slept,              \* total delay (ms) of the sleeps that have completed
    response,           \* what the last settled call returned as text
    caught,             \* the error the catch block of the last attempt caught
    failures,           \* attempts that ended in a caught GeminiError so far
    thrown,             \* the code of the GeminiError the AI path threw
    result,             \* the AnalysisResult of the AI path or of the fallback
    shown,              \* what the results view has rendered of the result
    settled,            \* generateContent calls that have resolved or rejected
    prompt,             \* const prompt = buildAnalysisPrompt(contractText)
    submitted,          \* the prompts passed to generateContent, in order
    current,            \* which of two concurrent analyses is running (1 or 2)
    other,              \* the locals of the analysis suspended at an await
    messages,           \* the chatbot's messages state
    input,              \* the chatbot's input state
    isLoading,          \* the chatbot's isLoading state
    chatSession,        \* the chatbot's chatSession state: 0 is null
    pending,            \* the chatSession.sendMessage calls not yet settled
    sends,              \* chatSession.sendMessage calls issued so far
    inits,              \* runs of the effect that initializes the chat
    toast,              \* the title of the last toast shown, or "none"
    reply               \* how the last settled chatSession.sendMessage call ended

vars ==
    << apiKey, contractText, maxRetries, pc, attempt, call, calls, sleeps, slept,
       response, caught, failures, thrown, result, shown, settled, prompt, submitted,
       current, other, messages, input, isLoading, chatSession, pending, sends, inits,
       toast, reply >>

config == << apiKey, contractText, maxRetries >>

\* the analysis that is not running: untouched by whatever the running one does
suspended == << current, other >>

\* the state of the chatbot component and its requests
chat ==
    << messages, input, isLoading, chatSession, pending, sends, inits, toast, reply >>

\* useState<ChatSession | null>(null): no session
NoSession == [id |-> 0]
NoReply == [kind |-> "none"]

\* the useState initial values of the chatbot, before its effect has run
ChatUnmounted ==
    /\ messages = <<>>
    /\ input = <<>>
    /\ isLoading = FALSE
    /\ chatSession = NoSession
    /\ pending = {}
    /\ sends = 0
    /\ inits = 0
    /\ toast = "none"
    /\ reply = NoReply

NoResponse == [received |-> FALSE, text |-> <<>>]
NotShown == [rendered |-> FALSE]
NoPrompt == [built |-> FALSE]
NoFrame == [pc |-> "none"]
Received(text) == [received |-> TRUE, text |-> text]

Init ==
    /\ apiKey \in BOOLEAN
    /\ contractText \in ContractTexts
    /\ maxRetries \in 0..MaxRetriesBound
    /\ pc = "Idle"
    /\ attempt = 0
    /\ call = "none"
    /\ calls = 0
    /\ sleeps = <<>>
    /\ slept = 0
    /\ response = NoResponse
    /\ caught = NoError
    /\ failures = 0
    /\ thrown = "none"
    /\ result = NoResult
    /\ shown = NotShown
    /\ settled = 0
    /\ prompt = NoPrompt
    /\ submitted = <<>>
    /\ current = 1
    /\ other = NoFrame
    /\ ChatUnmounted

\* the two checks before the model is created: the code thrown, or "none"
\* (variant that measures the text without trimming it)
preconditionError_noTrim(key, text) ==
    IF ~key THEN "NO_API_KEY"
    ELSE IF textLength(text) = 0 \/ textLength(text) < MinTextLength
    THEN "INVALID_INPUT"
    ELSE "none"

\* the two checks before the model is created: the code thrown, or "none"
preconditionError(key, text) ==
    IF ~key THEN "NO_API_KEY"
    ELSE IF textLength(text) = 0 \/ textLength(trimText(text)) < MinTextLength
    THEN "INVALID_INPUT"
    ELSE "none"

\* off by one: the attempt after the last one
isLastAttempt_late(a, budget) == a = budget

\* const isLastAttempt = attempt === maxRetries - 1
isLastAttempt(a, budget) == a = budget - 1

RECURSIVE pow2(_)
pow2(n) == IF n <= 0 THEN 1 ELSE 2 * pow2(n - 1)

\* a backoff that starts at 2 s
backoffMs_fromTwo(a) == pow2(a + 1) * 1000

\* Math.pow(2, attempt) * 1000
backoffMs(a) == pow2(a) * 1000

\* retries a GeminiError after the last attempt too
retryable_evenLast(error, a, budget) == error.isGemini

\* retries whatever was caught
retryable_any(error, a, budget) == ~isLastAttempt(a, budget)

\* error instanceof GeminiError && !isLastAttempt
retryable(error, a, budget) == error.isGemini /\ ~isLastAttempt(a, budget)

\* throws what it caught, unwrapped
rethrown_unwrapped(error) == error.code

\* the code of the error the catch block throws when it does not retry
rethrown(error) == IF error.isGemini THEN error.code ELSE "UNKNOWN_ERROR"

\* a caller that lets the fatal errors through
onRejected_fatalEscapes(code) ==
    IF code \in {"NO_API_KEY", "INVALID_INPUT", "UNKNOWN_ERROR"} THEN "Failed"
    ELSE "FallbackKeyword"

\* the catch of the caller: any error of the AI path leads to the fallback
onRejected(code) == "FallbackKeyword"

\* analyzeContractWithGemini throws GeminiError(code) to its caller
Throw(code) ==
    /\ thrown' = code
    /\ pc' = onRejected(code)
    /\ call' = "none"
    /\ UNCHANGED << calls, sleeps, result, submitted >>

\* a loop head that issues a second, speculative call beside the first
LoopHead_speculative(a) ==
    /\ attempt' = a
    /\ IF a < maxRetries
       THEN /\ pc' = "AttemptAI"
            /\ call' = "pending"
            /\ calls' = calls + 2
            /\ submitted' = Append(submitted, prompt')
            /\ UNCHANGED << sleeps, thrown, result >>
       ELSE Throw("MAX_RETRIES")

\* a loop that runs while attempt <= maxRetries
LoopHead_inclusive(a) ==
    /\ attempt' = a
    /\ IF a <= maxRetries
       THEN /\ pc' = "AttemptAI"
            /\ call' = "pending"
            /\ calls' = calls + 1
            /\ submitted' = Append(submitted, prompt')
            /\ UNCHANGED << sleeps, thrown, result >>
       ELSE Throw("MAX_RETRIES")

\* the head of the for loop with counter a: another call, or the loop ends
LoopHead(a) ==
    /\ attempt' = a
    /\ IF a < maxRetries
       THEN /\ pc' = "AttemptAI"
            /\ call' = "pending"
            /\ calls' = calls + 1
            /\ submitted' = Append(submitted, prompt')
            /\ UNCHANGED << sleeps, thrown, result >>
       ELSE Throw("MAX_RETRIES")

\* The caller invokes analyzeContractWithGemini(contractText, maxRetries): the
\* preconditions, the prompt, and the first pass of the loop up to its await.
Invoke ==
    /\ pc = "Idle"
    /\ IF preconditionError(apiKey, contractText) # "none"
       THEN /\ Throw(preconditionError(apiKey, contractText))
            /\ UNCHANGED << attempt, prompt >>
       ELSE /\ prompt' = buildAnalysisPrompt(contractText)
            /\ LoopHead(0)
    /\ UNCHANGED << config, suspended, chat, slept, response, caught, failures, shown,
                    settled >>

\* what one attempt makes of the text the call returned
attemptOutcome(text) ==
    IF text = <<>>
    THEN [error |-> GeminiError("EMPTY_RESPONSE"), result |-> NoResult]
    ELSE parseGeminiResponse(text)

\* the rest of the try block and the catch block, once the call has settled
Settle(outcome) ==
    /\ caught' = outcome.error
    /\ failures' = IF outcome.error.isGemini THEN failures + 1 ELSE failures
    /\ IF outcome.error = NoError
       THEN /\ result' = outcome.result
            /\ pc' = "Success"
            /\ call' = "none"
            /\ UNCHANGED << calls, sleeps, thrown, submitted >>
       ELSE IF retryable(outcome.error, attempt, maxRetries)
       THEN /\ sleeps' = Append(sleeps, backoffMs(attempt))
            /\ pc' = "RetryAI"
            /\ call' = "none"
            /\ UNCHANGED << calls, thrown, result, submitted >>
       ELSE Throw(rethrown(outcome.error))
    /\ settled' = settled + 1
    /\ UNCHANGED << config, suspended, chat, attempt, slept, shown, prompt >>

\* generateContent resolves and response.text() gives one of texts
RespondFrom(texts) ==
    /\ pc = "AttemptAI" /\ call = "pending"
    /\ \E text \in texts :
          /\ response' = Received(text)
          /\ Settle(attemptOutcome(text))

\* generateContent resolves and response.text() gives text
Respond == RespondFrom(ResponseTexts)

\* generateContent rejects: the network, the quota, anything else
Reject ==
    /\ pc = "AttemptAI" /\ call = "pending"
    /\ \E name \in TransportErrors :
          /\ response' = NoResponse
          /\ Settle([error |-> OtherError(name), result |-> NoResult])

\* generateContent never settles: the call carries no deadline
NeverSettles ==
    /\ pc = "AttemptAI" /\ call = "pending"
    /\ call' = "lost"
    /\ UNCHANGED << config, suspended, chat, pc, attempt, calls, sleeps, slept, response,
                    caught, failures, thrown, result, shown, settled, prompt,
                    submitted >>

\* the timer of sleep fires; continue: attempt++ and the head of the loop
Wake ==
    /\ pc = "RetryAI"
    /\ slept' = slept + sleeps[Len(sleeps)]
    /\ UNCHANGED prompt
    /\ LoopHead(attempt + 1)
    /\ response' = NoResponse
    /\ UNCHANGED << config, suspended, chat, caught, failures, shown, settled >>

\* the caller returns the result of the AI path
ReturnResult ==
    /\ pc = "Success"
    /\ pc' = "Done"
    /\ UNCHANGED << config, suspended, chat, attempt, call, calls, sleeps, slept, response,
                    caught, failures, thrown, result, shown, settled, prompt,
                    submitted >>

\* the catch of the caller returns analyzeContractWithKeywords(text)
Fallback ==
    /\ pc = "FallbackKeyword"
    /\ result' = analyzeContractWithKeywords(contractText)
    /\ pc' = "Done"
    /\ UNCHANGED << config, suspended, chat, attempt, call, calls, sleeps, slept, response,
                    caught, failures, thrown, shown, settled, prompt, submitted >>

\* const getRiskLevel = (score) => ...: the label of the risk badge
\* (variant whose comparisons are inclusive)
getRiskLevel_inclusive(score) ==
    IF score = 0 THEN "Low Risk"
    ELSE IF score <= 30 THEN "Moderate Risk"
    ELSE IF score <= 60 THEN "High Risk"
    ELSE "Critical Risk"

\* const getRiskLevel = (score) => ...: the label of the risk badge
getRiskLevel(score) ==
    IF score = 0 THEN "Low Risk"
    ELSE IF score < 30 THEN "Moderate Risk"
    ELSE IF score < 60 THEN "High Risk"
    ELSE "Critical Risk"

\* the badge of the analysis method, when one is rendered
methodBadge(method) ==
    IF method = "gemini" THEN "AI-Powered Analysis"
    ELSE IF method = "keyword" THEN "Pattern Matching"
    ELSE "none"

\* AnalysisResults({ results }): the results view renders the returned result
Render ==
    /\ pc = "Done"
    /\ ~shown.rendered
    /\ shown' = [rendered |-> TRUE,
                 overallRiskScore |-> result.overallRiskScore,
                 riskLevel |-> getRiskLevel(result.overallRiskScore),
                 methodBadge |-> methodBadge(result.analysisMethod),
                 confidence |-> result.confidence]
    /\ UNCHANGED << config, suspended, chat, pc, attempt, call, calls, sleeps, slept,
                    response, caught, failures, thrown, result, settled, prompt,
                    submitted >>

Next ==
    \/ Invoke
    \/ Respond
    \/ Reject
    \/ NeverSettles
    \/ Wake
    \/ ReturnResult
    \/ Fallback
    \/ Render

Spec == Init /\ [][Next]_vars

(***************************************************************************)
(* Two analyses at once. JavaScript runs one flow at a time; at an await   *)
(* the running flow is suspended and another may run. What an invocation   *)
(* of analyzeContractWithGemini owns are its parameters and locals;        *)
(* apiKey and genAI are module constants that both invocations read.       *)
(***************************************************************************)
\* the parameters and locals of the running invocation and of its caller
frame ==
    [contractText |-> contractText, maxRetries |-> maxRetries, pc |-> pc,
     attempt |-> attempt, call |-> call, calls |-> calls, sleeps |-> sleeps,
     slept |-> slept, response |-> response, caught |-> caught,
     failures |-> failures, thrown |-> thrown, result |-> result,
     settled |-> settled, prompt |-> prompt, submitted |-> submitted]

\* the frame of an invocation that has not started
InitialFrame(text, budget) ==
    [contractText |-> text, maxRetries |-> budget, pc |-> "Idle",
     attempt |-> 0, call |-> "none", calls |-> 0, sleeps |-> <<>>,
     slept |-> 0, response |-> NoResponse, caught |-> NoError,
     failures |-> 0, thrown |-> "none", result |-> NoResult,
     settled |-> 0, prompt |-> NoPrompt, submitted |-> <<>>]

\* a loop counter kept at module level: the resumed flow finds in it whatever
\* the flow that ran meanwhile left there
resume_sharedCounter(saved, running) == [saved EXCEPT !.attempt = running.attempt]

\* what a flow finds when it resumes: its own parameters and locals, as it
\* left them (for (let attempt ...), const prompt, const text are locals)
resume(saved, running) == saved

\* the running flow is suspended and the other one resumes
Switch ==
    /\ other # NoFrame
    /\ current' = 3 - current
    /\ other' = frame
    /\ LET mine == resume(other, frame) IN
          /\ contractText' = mine.contractText
          /\ maxRetries' = mine.maxRetries
          /\ pc' = mine.pc
          /\ attempt' = mine.attempt
          /\ call' = mine.call
          /\ calls' = mine.calls
          /\ sleeps' = mine.sleeps
          /\ slept' = mine.slept
          /\ response' = mine.response
          /\ caught' = mine.caught
          /\ failures' = mine.failures
          /\ thrown' = mine.thrown
          /\ result' = mine.result
          /\ settled' = mine.settled
          /\ prompt' = mine.prompt
          /\ submitted' = mine.submitted
    /\ UNCHANGED << apiKey, shown, chat >>

\* the texts and budgets of the two analyses, and what the model answers them
ConcurrentTexts ==
    { ContractText(0, MinTextLength - 1, 0, {1}),
      ContractText(2, MinTextLength, 1, {2, 5, 6}),
      ContractText(0, MinTextLength + 1, 0, {1, 2, 3, 4, 5}) }

ConcurrentBudgets == 1..2

ConcurrentResponses ==
    { <<>>, << Word("Sorry") >>, << Value(BasePayload) >>,
      << Value(Payload(Arr(<<>>), Num(0), Str("low"))) >> }

ConcurrentInit ==
    /\ apiKey \in BOOLEAN
    /\ contractText \in ConcurrentTexts
    /\ maxRetries \in ConcurrentBudgets
    /\ pc = "Idle"
    /\ attempt = 0
    /\ call = "none"
    /\ calls = 0
    /\ sleeps = <<>>
    /\ slept = 0
    /\ response = NoResponse
    /\ caught = NoError
    /\ failures = 0
    /\ thrown = "none"
    /\ result = NoResult
    /\ settled = 0
    /\ prompt = NoPrompt
    /\ submitted = <<>>
    /\ shown = NotShown
    /\ current = 1
    /\ other \in { InitialFrame(text, budget) :
                      text \in ConcurrentTexts, budget \in ConcurrentBudgets }
    /\ ChatUnmounted

\* generateContent resolves for the running analysis
ConcurrentRespond == RespondFrom(ConcurrentResponses)

ConcurrentNext ==
    \/ Invoke
    \/ ConcurrentRespond
    \/ Reject
    \/ NeverSettles
    \/ Wake
    \/ ReturnResult
    \/ Fallback
    \/ Switch

ConcurrentSpec == ConcurrentInit /\ [][ConcurrentNext]_vars

(***************************************************************************)
(* The contract chatbot (ContractChatbot.tsx) and the two chat functions   *)
(* of geminiService.ts. The component is mounted with the text and the     *)
(* result of a finished analysis. Texts are token sequences, as above;     *)
(* the timestamp of a message (Date.now()) is left out.                    *)
(***************************************************************************)
\* most runs of the effect that initializes the chat
MaxInits == 2
\* most messages the user sends
MaxSends == 2

\* interface ChatMessage { role, content }
ChatMessage(role, content) == [role |-> role, content |-> content]

\* the message the effect puts in the list once the session exists
WelcomeMessage == ChatMessage("assistant", << Word("welcome") >>)

\* how the SDK calls of createContractChatSession can end
SdkOutcomes == {"created", "throws"}

\* createContractChatSession without the check of the credential
createContractChatSession_noKeyCheck(key, sdk, analysis, id) ==
    IF sdk = "throws"
    THEN [error |-> OtherError("Error"), session |-> NoSession]
    ELSE [error |-> NoError,
          session |-> [id |-> id, riskScore |-> analysis.overallRiskScore]]

\* createContractChatSession(contractText, analysisResult): the session whose
\* history opens with the context built from the analysis, or the error thrown
createContractChatSession(key, sdk, analysis, id) ==
    IF ~key
    THEN [error |-> GeminiError("NO_API_KEY"), session |-> NoSession]
    ELSE IF sdk = "throws"
    THEN [error |-> OtherError("Error"), session |-> NoSession]
    ELSE [error |-> NoError,
          session |-> [id |-> id, riskScore |-> analysis.overallRiskScore]]

\* what the user can have in the input box
InputTexts ==
    { <<>>,
      << Ws >>,
      << Word("question") >>,
      << Ws, Word("question"), Ws >>,
      << Word("another"), Ws, Word("question") >> }

\* one of the suggestedQuestions
SuggestedText == << Word("suggested"), Ws, Word("question") >>

\* how a chatSession.sendMessage call can end: with a response whose text()
\* returns a text, rejected, or with a response whose text() throws
ChatReplies ==
    { [kind |-> "text", text |-> << Word("answer") >>],
      [kind |-> "text", text |-> <<>>],
      [kind |-> "rejected"],
      [kind |-> "blocked"] }

\* a sendChatMessage that returns the text of the error instead of throwing
sendChatMessage_swallow(r) ==
    IF r.kind = "text"
    THEN [error |-> NoError, text |-> r.text]
    ELSE [error |-> NoError, text |-> << Word("error") >>]

\* sendChatMessage(chatSession, message): the text of the response, or
\* CHAT_ERROR for whatever went wrong
sendChatMessage(r) ==
    IF r.kind = "text"
    THEN [error |-> NoError, text |-> r.text]
    ELSE [error |-> GeminiError("CHAT_ERROR"), text |-> <<>>]

\* <Input disabled={isLoading || !chatSession} />
inputDisabled == isLoading \/ chatSession = NoSession

\* <Button disabled={!input.trim() || isLoading || !chatSession} />
sendDisabled == trim(input) = <<>> \/ isLoading \/ chatSession = NoSession

\* the early return of handleSendMessage
sendRefused(text, session, loading) ==
    trim(text) = <<>> \/ session = NoSession \/ loading

\* the mount of the component with the props of a finished analysis: here
\* one that found no call budget, or no credential, and fell back
ChatTexts ==
    { ContractText(0, MinTextLength, 0, {}),
      ContractText(2, MinTextLength, 1, {2, 5, 6}) }

ChatInit ==
    /\ apiKey \in BOOLEAN
    /\ contractText \in ChatTexts
    /\ maxRetries = 0
    /\ pc = "Done"
    /\ attempt = 0
    /\ call = "none"
    /\ calls = 0
    /\ sleeps = <<>>
    /\ slept = 0
    /\ response = NoResponse
    /\ caught = NoError
    /\ failures = 0
    /\ thrown = IF preconditionError(apiKey, contractText) = "none"
                THEN "MAX_RETRIES"
                ELSE preconditionError(apiKey, contractText)
    /\ result = analyzeContractWithKeywords(contractText)
    /\ shown = NotShown
    /\ settled = 0
    /\ prompt = IF apiKey THEN buildAnalysisPrompt(contractText) ELSE NoPrompt
    /\ submitted = <<>>
    /\ current = 1
    /\ other = NoFrame
    /\ ChatUnmounted

\* everything but the chatbot
analysis ==
    << config, suspended, pc, attempt, call, calls, sleeps, slept, response, caught,
       failures, thrown, result, shown, settled, prompt, submitted >>

\* useEffect(..., [contractText, analysisResult, toast]): runs after the mount
\* and after every render that brings a new analysisResult object
InitializeChat ==
    /\ inits < MaxInits
    /\ inits' = inits + 1
    /\ \E sdk \in SdkOutcomes :
          LET created == createContractChatSession(apiKey, sdk, result, inits + 1) IN
          IF created.error = NoError
          THEN /\ chatSession' = created.session
               /\ messages' = << WelcomeMessage >>
               /\ UNCHANGED toast
          ELSE /\ toast' = "Chat Unavailable"
               /\ UNCHANGED << chatSession, messages >>
    /\ UNCHANGED << analysis, input, isLoading, pending, sends, reply >>

\* onChange={(e) => setInput(e.target.value)}
TypeInput ==
    /\ ~inputDisabled
    /\ \E text \in InputTexts : input' = text
    /\ UNCHANGED << analysis, messages, isLoading, chatSession, pending, sends, inits,
                    toast, reply >>

\* handleSuggestedQuestion(question), offered while messages.length === 1
SuggestedQuestion ==
    /\ Len(messages) = 1
    /\ input' = SuggestedText
    /\ UNCHANGED << analysis, messages, isLoading, chatSession, pending, sends, inits,
                    toast, reply >>

\* handleSendMessage up to its await: the call is issued and left pending
handleSendMessage ==
    IF sendRefused(input, chatSession, isLoading)
    THEN UNCHANGED chat
    ELSE /\ sends < MaxSends
         /\ messages' = Append(messages, ChatMessage("user", trim(input)))
         /\ input' = <<>>
         /\ isLoading' = TRUE
         /\ sends' = sends + 1
         /\ pending' = pending \cup { [id |-> sends + 1,
                                       session |-> chatSession,
                                       message |-> trim(input)] }
         /\ UNCHANGED << chatSession, inits, toast, reply >>

\* onClick={handleSendMessage}
ClickSend ==
    /\ ~sendDisabled
    /\ handleSendMessage
    /\ UNCHANGED analysis

\* handleKeyPress(e) with e.key === 'Enter'
PressEnter ==
    /\ ~inputDisabled
    /\ \E shiftKey \in BOOLEAN :
          IF ~shiftKey THEN handleSendMessage ELSE UNCHANGED chat
    /\ UNCHANGED analysis

\* the rest of handleSendMessage that leaves isLoading set when the send fails
afterAwait_noFinally(outcome) ==
    IF outcome.error = NoError
    THEN /\ messages' = Append(messages, ChatMessage("assistant", outcome.text))
         /\ isLoading' = FALSE
         /\ UNCHANGED toast
    ELSE /\ toast' = "Message Failed"
         /\ UNCHANGED << messages, isLoading >>

\* the rest of handleSendMessage, once sendChatMessage has settled: the end of
\* the try block, or the catch block, and then the finally block
afterAwait(outcome) ==
    /\ IF outcome.error = NoError
       THEN /\ messages' = Append(messages, ChatMessage("assistant", outcome.text))
            /\ UNCHANGED toast
       ELSE /\ toast' = "Message Failed"
            /\ UNCHANGED messages
    /\ isLoading' = FALSE

\* a pending chatSession.sendMessage call settles
SendSettles ==
    \E request \in pending, r \in ChatReplies :
       /\ pending' = pending \ {request}
       /\ reply' = r
       /\ afterAwait(sendChatMessage(r))
       /\ UNCHANGED << analysis, input, chatSession, sends, inits >>

ChatNext ==
    \/ InitializeChat
    \/ TypeInput
    \/ SuggestedQuestion
    \/ ClickSend
    \/ PressEnter
    \/ SendSettles

ChatSpec == ChatInit /\ [][ChatNext]_vars

(***************************************************************************)
(* Properties                                                              *)
(***************************************************************************)
\* the error codes the retry loop treats as transient
TransientCodes == {"EMPTY_RESPONSE", "PARSE_ERROR", "VALIDATION_ERROR"}

ResultFields ==
    {"summary", "keyDetails", "flaggedClauses", "overallRiskScore", "recommendations",
     "analysisMethod", "confidence"}

\* r carries every field of an AnalysisResult
Complete(r) == ResultFields \subseteq DOMAIN r

\* the invariants of a result: score in range and equal to the points of its
\* malicious clauses, clause ids unique, key-detail labels unique
WellFormed(r) ==
    /\ Complete(r)
    /\ r.overallRiskScore \in 0..MaxScore
    /\ r.overallRiskScore = riskScore(r.flaggedClauses)
    /\ \A i, j \in 1..Len(r.flaggedClauses) :
          r.flaggedClauses[i].clause.id = r.flaggedClauses[j].clause.id => i = j
    /\ \A i, j \in 1..Len(r.keyDetails) :
          r.keyDetails[i].label = r.keyDetails[j].label => i = j

\* the AI path has returned a result (to the caller, or on its way to it)
AIPathSucceeded == pc = "Success" \/ (pc = "Done" /\ thrown = "none")

\* C1: whatever the AI path does (no credential, text too short, empty
\* response, parse or validation failure, unknown error, budget exhausted), the
\* analysis never ends in a failure handed to the caller: once it has ended it is
\* in Done with a complete result, the AI path's when the AI path threw nothing
\* and the keyword fallback's when it threw.
C1_AlwaysAResult ==
    /\ pc \in {"Idle", "AttemptAI", "RetryAI", "Success", "FallbackKeyword", "Done"}
    /\ thrown # "none" => pc \in {"FallbackKeyword", "Done"}
    /\ pc = "Done" =>
          /\ Complete(result)
          /\ result.analysisMethod = (IF thrown = "none" THEN "gemini" ELSE "keyword")
    /\ thrown \in {"none", "NO_API_KEY", "INVALID_INPUT", "MAX_RETRIES",
                   "UNKNOWN_ERROR"} \cup TransientCodes

C1_Witness ==
    /\ pc = "Done"
    /\ thrown = "UNKNOWN_ERROR"
    /\ result.analysisMethod = "keyword"
    /\ Complete(result)

\* C2: when the budget is used up and the last attempt, like every one before
\* it, failed transiently, no sleep follows that attempt: the error is thrown to
\* the caller, whose fallback answers with a well-formed result of method
\* "keyword".
C2_ExhaustedBudgetFallsBack ==
    (/\ maxRetries >= 1
     /\ calls = maxRetries
     /\ pc # "AttemptAI"
     /\ caught.isGemini /\ caught.code \in TransientCodes)
    => /\ failures = maxRetries
       /\ Len(sleeps) = maxRetries - 1
       /\ thrown = caught.code
       /\ pc \in {"FallbackKeyword", "Done"}
       /\ pc = "Done" =>
             /\ result.analysisMethod = "keyword"
             /\ WellFormed(result)
             /\ result = analyzeContractWithKeywords(contractText)

C2_Witness ==
    /\ pc = "Done"
    /\ maxRetries = 3 /\ calls = 3 /\ failures = 3
    /\ thrown = "PARSE_ERROR"
    /\ result.analysisMethod = "keyword"
    /\ result.overallRiskScore = MaxScore

\* C3: the calls of one analysis never exceed maxRetries; an attempt that fails
\* with EMPTY_RESPONSE, PARSE_ERROR or VALIDATION_ERROR while budget remains goes
\* to a backoff sleep, and the only step out of the sleep is the next call; an
\* attempt that succeeds issues no call and no sleep, and none follows it.
C3_BoundedRetries ==
    [][/\ calls' <= maxRetries
       /\ (/\ pc = "AttemptAI" /\ pc' # "AttemptAI"
           /\ caught'.isGemini /\ caught'.code \in TransientCodes
           /\ attempt + 1 < maxRetries)
          => /\ pc' = "RetryAI"
             /\ Len(sleeps') = Len(sleeps) + 1
             /\ calls' = calls
       /\ pc = "RetryAI"
          => /\ pc' = "AttemptAI" /\ call' = "pending"
             /\ calls' = calls + 1
             /\ attempt' = attempt + 1
             /\ sleeps' = sleeps
       /\ (pc = "AttemptAI" /\ pc' = "Success")
          => calls' = calls /\ sleeps' = sleeps /\ call' = "none"
       /\ pc \in {"Success", "Done"}
          => calls' = calls /\ sleeps' = sleeps /\ call' = "none" /\ pc' = "Done"
      ]_vars

C3_Witness ==
    /\ pc = "AttemptAI"
    /\ calls = 3 /\ maxRetries = 3
    /\ failures = 2
    /\ Len(sleeps) = 2

\* C4 as stated: after two transient failures and a success at the third attempt,
\* three calls, sleeps of 1 s and 2 s, at least 3 s elapsed, and the result is the
\* AI path's, built from the third response, with analysisMethod = "ai".
C4_Original ==
    (AIPathSucceeded /\ failures = 2)
    => /\ calls = 3
       /\ sleeps = << 1000, 2000 >>
       /\ slept >= 3000
       /\ result.analysisMethod = "ai"

\* C4, amended: as C4, the method of the AI path's result being "gemini"; the
\* k-th sleep lasts 2^(k-1) seconds, and the result carries the score and the
\* flagged items of the third response.
C4_BackoffThenAIResult ==
    /\ \A k \in 1..Len(sleeps) : sleeps[k] = (2 ^ (k - 1)) * 1000
    /\ (AIPathSucceeded /\ failures = 2)
       => /\ calls = 3
          /\ sleeps = << 1000, 2000 >>
          /\ slept >= 3000
          /\ result.analysisMethod = "gemini"
          /\ response.received
          /\ LET data == JSONparse(cleanResponse(response.text)).data IN
                /\ result.overallRiskScore = data.v.overallRiskScore.v
                /\ Len(result.flaggedClauses) = Len(data.v.flaggedClauses.v)

C4_Witness ==
    /\ pc = "Done"
    /\ thrown = "none"
    /\ failures = 2 /\ calls = 3
    /\ slept = 3000
    /\ result.analysisMethod = "gemini"
    /\ Len(result.flaggedClauses) = 3

\* C5: with no credential, or with a text whose trimmed length is below 100, no
\* call to the model is ever issued and no sleep occurs; the analysis goes from
\* Idle to the fallback with NO_API_KEY or INVALID_INPUT.
C5_NoCallWhenPreconditionFails ==
    (~apiKey \/ contractText.core < MinTextLength)
    => /\ calls = 0 /\ call = "none"
       /\ sleeps = <<>> /\ slept = 0
       /\ pc \in {"Idle", "FallbackKeyword", "Done"}
       /\ pc # "Idle" => thrown = (IF ~apiKey THEN "NO_API_KEY" ELSE "INVALID_INPUT")

C5_Witness ==
    /\ pc = "Done"
    /\ apiKey
    /\ maxRetries = 3
    /\ contractText.core = MinTextLength - 1
    /\ textLength(contractText) > MinTextLength
    /\ thrown = "INVALID_INPUT"
    /\ calls = 0

\* the transport failures the claims call network and rate-limit failures
NetworkFailures == {"NetworkError", "RateLimitError"}

\* C6 as stated: a network or rate-limit failure of the call, while budget
\* remains, is followed by a backoff sleep and a retry, like an empty response.
C6_Original ==
    [][(/\ pc = "AttemptAI" /\ pc' # "AttemptAI"
        /\ caught'.code \in NetworkFailures
        /\ attempt + 1 < maxRetries)
       => /\ pc' = "RetryAI"
          /\ Len(sleeps') = Len(sleeps) + 1
      ]_vars

\* C6, amended: a network or rate-limit failure of the call is not a GeminiError
\* and is never retried: at whatever attempt it occurs it is thrown as
\* UNKNOWN_ERROR, no sleep and no further call follows it, and the fallback
\* answers.
C6_NetworkFailureNotRetried ==
    caught.code \in NetworkFailures
    => /\ thrown = "UNKNOWN_ERROR"
       /\ pc \in {"FallbackKeyword", "Done"}
       /\ call = "none"
       /\ calls = attempt + 1
       /\ Len(sleeps) = attempt
       /\ failures = attempt
       /\ pc = "Done" => result.analysisMethod = "keyword"

C6_Witness ==
    /\ caught.code = "RateLimitError"
    /\ maxRetries = 3 /\ attempt = 0 /\ calls = 1
    /\ sleeps = <<>>
    /\ pc = "Done"
    /\ result.analysisMethod = "keyword"

\* C7: an error caught during an attempt that is no GeminiError ends the AI
\* path in that very step, whatever budget remains: it is thrown as
\* UNKNOWN_ERROR to the caller's fallback with no sleep and no call, and after
\* UNKNOWN_ERROR the only step left is the fallback's.
C7_UnknownErrorEndsAIPath ==
    [][/\ (/\ pc = "AttemptAI" /\ pc' # "AttemptAI"
           /\ ~caught'.isGemini /\ caught' # NoError)
          => /\ thrown' = "UNKNOWN_ERROR"
             /\ pc' = "FallbackKeyword"
             /\ call' = "none"
             /\ calls' = calls /\ sleeps' = sleeps /\ attempt' = attempt
       /\ (thrown = "UNKNOWN_ERROR" /\ pc # "Done")
          => /\ pc = "FallbackKeyword" /\ pc' = "Done"
             /\ thrown' = thrown
             /\ calls' = calls /\ sleeps' = sleeps /\ call' = "none"
      ]_vars

C7_Witness ==
    /\ pc = "FallbackKeyword"
    /\ caught = OtherError("TypeError")
    /\ thrown = "UNKNOWN_ERROR"
    /\ maxRetries = 3 /\ attempt = 1 /\ calls = 2
    /\ Len(sleeps) = 1

\* C8: every analysis goes on until Done: no attempt can leave the analysis
\* waiting with nothing left to happen.
C8_EveryAnalysisReachesDone == pc = "Done" \/ ENABLED Next

\* C9: the score of a result of the AI path is min(100, points of its malicious
\* clauses), whatever score the response declared.
C9_ScoreRecomputed ==
    (AIPathSucceeded /\ result.analysisMethod = "gemini")
    => result.overallRiskScore = riskScore(result.flaggedClauses)

\* the response is one JSON value that declares a number outside [0,100] as score
DeclaresScoreOutOfRange(data) ==
    /\ data.t = "object"
    /\ "overallRiskScore" \in DOMAIN data.v
    /\ data.v.overallRiskScore.t = "number"
    /\ (data.v.overallRiskScore.v < 0 \/ data.v.overallRiskScore.v > 100)

\* the response is one JSON value whose riskLevel is none of the four levels
DeclaresUnknownLevel(data) ==
    /\ data.t = "object"
    /\ \/ "riskLevel" \notin DOMAIN data.v
       \/ data.v.riskLevel.t # "string"
       \/ ~(data.v.riskLevel.v \in {"low", "moderate", "high", "critical"})

\* C10: a result of the AI path has a score in [0,100], and a response that
\* declares a score outside [0,100] or a riskLevel that is none of low, moderate,
\* high, critical fails with VALIDATION_ERROR and gives no result.
C10_ScoreInRange ==
    /\ (pc \in {"Success", "Done"} /\ result.analysisMethod = "gemini")
       => (result.overallRiskScore >= 0 /\ result.overallRiskScore <= 100)
    /\ (/\ response.received
        /\ Len(response.text) = 1 /\ response.text[1].tok = "value"
        /\ \/ DeclaresScoreOutOfRange(response.text[1].data)
           \/ DeclaresUnknownLevel(response.text[1].data))
       => /\ caught = GeminiError("VALIDATION_ERROR")
          /\ pc \notin {"Success", "AttemptAI"}
          /\ result.analysisMethod # "gemini"

C10_Witness ==
    /\ pc = "RetryAI"
    /\ response.received
    /\ Len(response.text) = 1 /\ response.text[1].tok = "value"
    /\ DeclaresScoreOutOfRange(response.text[1].data)
    /\ response.text[1].data.v.overallRiskScore.v = 101
    /\ response.text[1].data.v.riskLevel = Str("high")
    /\ caught = GeminiError("VALIDATION_ERROR")

\* the level of the table for a score: 0 low, 1-29 moderate, 30-59 high,
\* 60 and above critical
TableLevel(score) ==
    IF score = 0 THEN "low"
    ELSE IF score \in 1..29 THEN "moderate"
    ELSE IF score \in 30..59 THEN "high"
    ELSE "critical"

\* the label under which the results view shows each level
LevelLabel ==
    [low |-> "Low Risk", moderate |-> "Moderate Risk", high |-> "High Risk",
     critical |-> "Critical Risk"]

\* the riskLevel the last response declared ("none" when it declared no string)
DeclaredLevel ==
    IF /\ response.received
       /\ JSONparse(cleanResponse(response.text)).ok
       /\ Get(JSONparse(cleanResponse(response.text)).data, "riskLevel").t = "string"
    THEN Get(JSONparse(cleanResponse(response.text)).data, "riskLevel").v
    ELSE "none"

\* C11: the risk level shown for a result, of the AI path or of the fallback, is
\* the level of the table for the result's overallRiskScore (0 low, 1-29
\* moderate, 30-59 high, 60 and above critical) and for nothing else: the result
\* carries no riskLevel of its own, and a level the response declared that
\* contradicts the table for the accepted score is not the one shown.
C11_RiskLevelFromScore ==
    /\ pc \in {"Success", "Done"} => ~("riskLevel" \in DOMAIN result)
    /\ shown.rendered
       => /\ shown.overallRiskScore = result.overallRiskScore
          /\ shown.overallRiskScore \in 0..100
          /\ shown.riskLevel = LevelLabel[TableLevel(shown.overallRiskScore)]
          /\ (/\ result.analysisMethod = "gemini"
              /\ DeclaredLevel \in DOMAIN LevelLabel
              /\ DeclaredLevel # TableLevel(shown.overallRiskScore))
             => shown.riskLevel # LevelLabel[DeclaredLevel]

C11_Witness ==
    /\ shown.rendered
    /\ result.analysisMethod = "gemini"
    /\ result.overallRiskScore = 59
    /\ DeclaredLevel = "low"
    /\ shown.riskLevel = "High Risk"

\* the items of flaggedClauses the last response declared
DeclaredItems == Get(JSONparse(cleanResponse(response.text)).data, "flaggedClauses").v

\* C12: in a result of the AI path no two flagged clauses have the same clause
\* id, and the flagged clauses are the items the response declared, one for
\* each and in their order: none is dropped, none merged.
C12_ClauseIdsUnique ==
    (AIPathSucceeded /\ result.analysisMethod = "gemini")
    => /\ \A i, j \in 1..Len(result.flaggedClauses) :
             result.flaggedClauses[i].clause.id = result.flaggedClauses[j].clause.id
             => i = j
       /\ response.received
       /\ Len(result.flaggedClauses) = Len(DeclaredItems)
       /\ \A i \in 1..Len(DeclaredItems) :
             /\ result.flaggedClauses[i].matchedText = Get(DeclaredItems[i], "clauseText")
             /\ result.flaggedClauses[i].clause.severity = Get(DeclaredItems[i], "severity")
             /\ result.flaggedClauses[i].clause.isMalicious
                   = Get(DeclaredItems[i], "isMalicious")

C12_Witness ==
    /\ pc = "Done" /\ thrown = "none"
    /\ result.analysisMethod = "gemini"
    /\ Len(result.flaggedClauses) = 3
    /\ DeclaredItems[1] = DeclaredItems[2]
    /\ DeclaredItems[2] = DeclaredItems[3]
    /\ result.flaggedClauses[1].clause.id # result.flaggedClauses[3].clause.id

\* the keyDetails object the last response declared
DeclaredDetails == Get(JSONparse(cleanResponse(response.text)).data, "keyDetails")

\* C13: in a result of the AI path no two keyDetails entries have the same
\* label, whichever of the key-detail fields the response gave a value and
\* whichever it left null.
C13_DetailLabelsUnique ==
    (AIPathSucceeded /\ result.analysisMethod = "gemini")
    => \A i, j \in 1..Len(result.keyDetails) :
          result.keyDetails[i].label = result.keyDetails[j].label => i = j

C13_Witness ==
    /\ pc = "Done" /\ thrown = "none"
    /\ result.analysisMethod = "gemini"
    /\ \A f \in DetailNames : Get(DeclaredDetails, f) = Str("extracted value")
    /\ Len(result.keyDetails) = 8

\* the label of the keyDetails entry of each declared field
FieldLabel ==
    [monthlyRent |-> "Monthly Rent", securityDeposit |-> "Security Deposit",
     petDeposit |-> "Pet Deposit", leaseStartDate |-> "Lease Start Date",
     leaseEndDate |-> "Lease End Date", propertyAddress |-> "Property Address",
     landlordName |-> "Landlord Name", tenantName |-> "Tenant Name",
     noticePeriod |-> "Notice Period"]

\* the key-detail fields the last response declared
DeclaredFields ==
    IF DeclaredDetails.t = "object" THEN DetailNames \cap DOMAIN DeclaredDetails.v ELSE {}

\* C14: in a result of the AI path, for each key-detail field the response
\* declared (monthlyRent, securityDeposit, petDeposit, leaseStartDate,
\* leaseEndDate, propertyAddress, landlordName, tenantName, noticePeriod), the
\* keyDetails hold an entry for the field, with the declared value, exactly when
\* the declared value is not null.
C14_EntryIffNonNull ==
    (AIPathSucceeded /\ result.analysisMethod = "gemini")
    => \A f \in DeclaredFields :
          (\E i \in 1..Len(result.keyDetails) :
              /\ result.keyDetails[i].label = FieldLabel[f]
              /\ result.keyDetails[i].value = Get(DeclaredDetails, f))
          <=> Get(DeclaredDetails, f) # Null

\* the last response is payload inside a fenced block with the given tag
FencedWith(payload, tag) ==
    /\ response.received
    /\ \E lead, open, close, trail \in 0..1 :
          response.text = Wrap(payload, lead, tag, open, close, trail)

\* the attempt ended as the parser ends on payload without fences
SameOutcomeAs(payload) ==
    /\ caught = parseGeminiResponse(payload).error
    /\ caught = NoError
       => /\ pc \in {"Success", "Done"}
          /\ result = parseGeminiResponse(payload).result
    /\ caught # NoError => result.analysisMethod # "gemini"

\* the last response contains a fence marker
HasFence == response.received /\ \E i \in 1..Len(response.text) : response.text[i] = Fence

C16_Original ==
    /\ (AIPathSucceeded /\ pc = "Done")
       => result.analysisMethod = "ai" /\ result.confidence = 95
    /\ (pc = "Done" /\ thrown # "none") => result.confidence < 95

\* C16, amended: a result of the AI path has analysisMethod = "gemini" (the
\* methods are gemini and keyword) and the confidence 95 whatever the response
\* held, and the confidence of a result of the keyword fallback is lower than
\* 95; the results view shows the badge of the method and the confidence.
C16_MethodAndConfidence ==
    /\ pc = "Done" => result.analysisMethod \in {"gemini", "keyword"}
    /\ AIPathSucceeded
       => result.analysisMethod = "gemini" /\ result.confidence = 95
    /\ (pc = "Done" /\ thrown # "none")
       => result.analysisMethod = "keyword" /\ result.confidence < 95
    /\ shown.rendered
       => /\ shown.confidence = result.confidence
          /\ shown.methodBadge = (IF thrown = "none" THEN "AI-Powered Analysis"
                                  ELSE "Pattern Matching")

C16_Witness ==
    /\ shown.rendered
    /\ thrown = "none"
    /\ result.analysisMethod = "gemini"
    /\ result.overallRiskScore = 0
    /\ Len(result.flaggedClauses) = 3
    /\ Len(result.keyDetails) = 4
    /\ shown.confidence = 95
    /\ shown.methodBadge = "AI-Powered Analysis"

RECURSIVE SumSeq(_)
\* the sum of a sequence of numbers
SumSeq(s) == IF s = <<>> THEN 0 ELSE Head(s) + SumSeq(Tail(s))

\* C17: of the calls of one analysis at most one is outstanding at any time,
\* and a call is issued only when none is outstanding: the first by the
\* invocation, each later one after the call before it has settled in a caught
\* GeminiError and the backoff sleep that followed has completed.
C17_OneCallAtATime ==
    [][/\ calls - settled \in {0, 1}
       /\ calls' - settled' \in {0, 1}
       /\ calls' # calls
          => /\ calls' = calls + 1
             /\ calls = settled
             /\ call = "none" /\ call' = "pending"
             /\ calls = 0 => pc = "Idle"
             /\ calls >= 1
                => /\ pc = "RetryAI"
                   /\ caught.isGemini
                   /\ failures = calls
                   /\ Len(sleeps) = calls
                   /\ slept' = SumSeq(sleeps)
      ]_vars

C17_Witness ==
    /\ pc = "AttemptAI" /\ call = "pending"
    /\ calls = 2 /\ settled = 1
    /\ caught = GeminiError("EMPTY_RESPONSE")
    /\ sleeps = << 1000 >> /\ slept = 1000

\* data has the six required top-level fields, each of its declared type
\* (keyDetails an object, flaggedClauses and recommendations arrays,
\* overallRiskScore a number, riskLevel and summary strings)
DeclaredTypesOK(data) ==
    /\ data.t = "object"
    /\ TopLevelFields \subseteq DOMAIN data.v
    /\ data.v.keyDetails.t = "object"
    /\ data.v.flaggedClauses.t = "array"
    /\ data.v.overallRiskScore.t = "number"
    /\ data.v.riskLevel.t = "string"
    /\ data.v.summary.t = "string"
    /\ data.v.recommendations.t = "array"

\* C19: an empty response text ends the attempt with EMPTY_RESPONSE and the
\* parser is not run; a text that is not well-formed JSON ends it with
\* PARSE_ERROR; well-formed JSON that lacks a required top-level field, has one
\* of another type than declared, or declares a score outside [0,100] or an
\* unknown riskLevel ends it with VALIDATION_ERROR; an attempt that ends in an
\* error gives no result.
C19_ParserStepsInOrder ==
    response.received
    => LET parsed == JSONparse(cleanResponse(response.text)) IN
       /\ response.text = <<>> => caught = GeminiError("EMPTY_RESPONSE")
       /\ (response.text # <<>> /\ ~parsed.ok) => caught = GeminiError("PARSE_ERROR")
       /\ (/\ response.text # <<>> /\ parsed.ok
           /\ \/ ~DeclaredTypesOK(parsed.data)
              \/ DeclaresScoreOutOfRange(parsed.data)
              \/ DeclaresUnknownLevel(parsed.data))
          => caught = GeminiError("VALIDATION_ERROR")
       /\ caught # NoError => (pc # "Success" /\ result.analysisMethod # "gemini")

\* the number of characters of the text a prompt embeds
EmbeddedLength == prompt.contract.lead + prompt.contract.core + prompt.contract.trail

\* C20: the prompt is built once, before the first call, from the contract
\* text alone: it embeds the first min(length, 50000) characters of the text as
\* given (leading whitespace included); once built it never changes, and every
\* call of the analysis, the first and each retry, submits that same prompt.
C20_PromptBuiltOnce ==
    [][/\ prompt.built => prompt' = prompt
       /\ Len(submitted') = calls'
       /\ calls' > 0 => prompt'.built
       /\ \A k \in 1..Len(submitted') : submitted'[k] = prompt'
       /\ prompt'.built
          => /\ EmbeddedLength'
                  = (IF textLength(contractText) < 50000 THEN textLength(contractText)
                     ELSE 50000)
             /\ prompt'.contract.lead = atMost(contractText.lead, 50000)
             /\ prompt'.contract.core
                  = atMost(contractText.core, 50000 - contractText.lead)
             /\ prompt'.knowledge = "BC_RTA_KNOWLEDGE"
             /\ DOMAIN prompt' = {"built", "knowledge", "contract"}
      ]_vars

C20_Witness ==
    /\ calls = 3 /\ Len(submitted) = 3
    /\ submitted[1] = submitted[3]
    /\ textLength(contractText) = 50002
    /\ prompt.contract = [lead |-> 1, core |-> 49999, trail |-> 0]

\* the frame of analysis i: the running one's variables, or the suspended frame
StateOf(i) == IF current = i THEN frame ELSE other

\* what the calls, the backoff and the result of an analysis with frame f are,
\* given its own text and the responses to its own calls
OwnCourse(f) ==
    /\ f.calls = Len(f.submitted) /\ f.calls <= f.maxRetries
    /\ f.calls = (IF f.prompt.built THEN f.attempt + 1 ELSE 0)
    /\ f.prompt.built => f.prompt = buildAnalysisPrompt(f.contractText)
    /\ \A k \in 1..Len(f.submitted) : f.submitted[k] = f.prompt
    /\ \A k \in 1..Len(f.sleeps) : f.sleeps[k] = (2 ^ (k - 1)) * 1000
    /\ Len(f.sleeps) = (IF f.pc = "RetryAI" THEN f.attempt + 1 ELSE f.attempt)
    /\ f.settled = f.failures
                     + (IF f.settled > 0 /\ f.caught = NoError THEN 1 ELSE 0)
                     + (IF f.caught # NoError /\ ~f.caught.isGemini THEN 1 ELSE 0)
    /\ (f.pc = "Success" \/ (f.pc = "Done" /\ f.thrown = "none"))
       => /\ f.response.received
          /\ f.result = parseGeminiResponse(f.response.text).result
    /\ (f.pc = "Done" /\ f.thrown # "none")
       => f.result = analyzeContractWithKeywords(f.contractText)

\* C18: with two analyses interleaved at their awaits in any order, a step of
\* one analysis (a call, a failure, a retry, a sleep, its completion) leaves
\* the frame of the other as it was, a switch between them changes neither
\* frame, and the calls, the backoff schedule and the result of each are
\* those its own text and the responses to its own calls determine.
C18_AnalysesIndependent ==
    [][/\ \A i \in {1, 2} :
             (current' # current \/ i # current) => StateOf(i)' = StateOf(i)
       /\ OwnCourse(frame') /\ OwnCourse(other')
      ]_vars

C18_Witness ==
    /\ current = 1
    /\ pc = "RetryAI" /\ attempt = 0 /\ sleeps = << 1000 >>
    /\ caught = GeminiError("PARSE_ERROR")
    /\ other.pc = "AttemptAI" /\ other.call = "pending"
    /\ other.attempt = 1 /\ other.calls = 2
    /\ other.contractText # contractText

LoadingIffOutstanding ==
    /\ Cardinality(pending) <= 1
    /\ isLoading <=> pending # {}

\* C22: in the chatbot at most one chat request is outstanding at any time,
\* whatever the order of clicks on send, presses of Enter and settlements: a
\* request is issued only when none is loading, a session exists and the input
\* is not blank, and the loading flag is set exactly while a request is
\* outstanding (it is reset when the request settles, with a response or with
\* a failure).
C22_OneRequestOutstanding ==
    [][/\ LoadingIffOutstanding
       /\ LoadingIffOutstanding'
       /\ sends' # sends
          => /\ ~isLoading /\ chatSession # NoSession /\ trim(input) # <<>>
             /\ pending = {}
             /\ sends' = sends + 1
             /\ isLoading'
             /\ pending' = { [id |-> sends', session |-> chatSession,
                              message |-> trim(input)] }
       /\ (sends' = sends /\ pending' # pending)
          => /\ isLoading /\ ~isLoading'
             /\ pending' = {}
             /\ reply' \in ChatReplies
       /\ (isLoading \/ chatSession = NoSession \/ trim(input) = <<>>)
          => (sends' = sends /\ pending' \subseteq pending)
      ]_vars

\* a second request is outstanding after the first one failed
C22_Witness ==
    /\ isLoading
    /\ Cardinality(pending) = 1
    /\ sends = 2
    /\ reply = [kind |-> "rejected"]
    /\ toast = "Message Failed"
    /\ input = <<>>

\* the step appends exactly the message m to the list
Appends(m) == messages' = Append(messages, m)

\* the list after the step begins with the whole list before it
OnlyGrows ==
    /\ Len(messages') >= Len(messages)
    /\ SubSeq(messages', 1, Len(messages)) = messages

\* what a send and its settlement do to the list: an accepted send appends the
\* user's message, a response with a text appends one assistant message with
\* that text, a failure appends nothing and shows the failure toast
SendFlowAppends ==
    /\ sends' # sends => Appends(ChatMessage("user", trim(input)))
    /\ (sends' = sends /\ pending' # pending /\ reply'.kind = "text")
       => Appends(ChatMessage("assistant", reply'.text))
    /\ (sends' = sends /\ pending' # pending /\ reply'.kind # "text")
       => (messages' = messages /\ toast' = "Message Failed")

\* C23 as stated: the message list only grows by appending (no step removes
\* or replaces a message): an accepted send appends the user's message, a
\* successful response then appends exactly one assistant message, a failed
\* send appends nothing and leaves the list as it was.
C23_Original == [][OnlyGrows /\ SendFlowAppends]_vars

\* C23, amended: a step that changes the message list either appends exactly
\* one message to it or is a successful initialization, which replaces the
\* whole list by the welcome message; an accepted send appends the user's
\* message, a successful response appends exactly one assistant message, a
\* failed send appends nothing and leaves the list as it was.
C23_AppendsExceptOnInitialization ==
    [][/\ messages' # messages
          => \/ OnlyGrows /\ Len(messages') = Len(messages) + 1
             \/ /\ inits' = inits + 1
                /\ chatSession' # chatSession
                /\ messages' = << WelcomeMessage >>
       /\ (inits' = inits + 1 /\ chatSession' = chatSession) => messages' = messages
       /\ inits' = inits => OnlyGrows
       /\ SendFlowAppends
      ]_vars

\* a first send was answered and a second one failed: its user message is
\* the last of the list
C23_Witness ==
    /\ Len(messages) = 4
    /\ messages[1] = WelcomeMessage
    /\ messages[2].role = "user"
    /\ messages[3] = ChatMessage("assistant", << Word("answer") >>)
    /\ messages[4] = ChatMessage("user", << Word("question") >>)
    /\ sends = 2 /\ pending = {} /\ ~isLoading
    /\ reply = [kind |-> "blocked"]
    /\ toast = "Message Failed"

\* a chatbot without a session has an empty list and has sent no request
NothingWithoutSession ==
    chatSession = NoSession
    => /\ messages = <<>>
       /\ sends = 0 /\ pending = {} /\ ~isLoading
       /\ reply = NoReply

\* C24: when the creation of the chat session fails (no credential, or the
\* SDK throws), the chatbot stays without a session: the failed run of the
\* effect adds no welcome message and changes neither the session nor the
\* list, only the toast; as long as no initialization has succeeded the list
\* is empty and no chat request is sent; a session appears only by a
\* successful initialization, and never without a credential.
C24_NoSessionAfterFailedCreation ==
    [][/\ NothingWithoutSession
       /\ NothingWithoutSession'
       /\ (inits' # inits /\ chatSession' = chatSession)
          => /\ toast' = "Chat Unavailable"
             /\ messages' = messages
             /\ sends' = sends /\ pending' = pending
       /\ ~apiKey => chatSession' = NoSession
       /\ chatSession' # chatSession
          => /\ apiKey
             /\ inits' = inits + 1
             /\ chatSession' # NoSession
             /\ messages' = << WelcomeMessage >>
       /\ sends' # sends => (chatSession # NoSession /\ inits >= 1)
      ]_vars

\* without a credential the creation has failed twice: still no session, no
\* message, no request
C24_Witness ==
    /\ ~apiKey
    /\ inits = 2
    /\ toast = "Chat Unavailable"
    /\ chatSession = NoSession
    /\ messages = <<>>
    /\ sends = 0 /\ pending = {}

====
